---- MODULE Spec2Model ----
(***************************************************************************)
(* Model of the intent hand-off of eurusd-quant-engine.                    *)
(*                                                                         *)
(* Spec: the durable intent queue (src/execution_live/intent_sink.py,      *)
(* FileIntentSink) on a POSIX file system: producers run emit step by step *)
(* (name generation, open of the temporary file, flushes of the encoded    *)
(* payload, close, rename), may get an I/O error or be killed at any step, *)
(* and an external consumer moves entries out of pending.                  *)
(*                                                                         *)
(* SerSpec: one ExecutionIntent (intent_schema.py) that is encoded by      *)
(* serialize_intent (intent_serializer.py), assigned to, and handed over.  *)
(*                                                                         *)
(* HailMarySpec: CompetitionHailMary.on_bar on one snapshot.               *)
(* HookSpec: a Hypothesis instance whose wrapped on_bar is called again    *)
(* and again, with the diagnostic hook of src/hypotheses/base.py.          *)
(* ChainSpec: subclasses of Hypothesis are defined one below the other     *)
(* (__init_subclass__ runs for each) and on_bar of an instance of the      *)
(* newest class is called.                                                 *)
(*                                                                         *)
(* BotSpec: the /start_demo, /start_live and /stop handlers of             *)
(* src/quant/telebot/main.py, the users' rows and the running sessions.    *)
(***************************************************************************)
EXTENDS Integers, Sequences, FiniteSets, TLC

\* ---------------------------------------------------------------- bounds
\* number of emit calls made in one behaviour (all producers together)
MaxEmits == 3

\* ------------------------------------------------------------- constants
\* independent producer processes, each with its own FileIntentSink
Producers == {"p1", "p2"}
\* the values uuid.uuid4() can return (one per emit call is enough)
UUIDs == 1..MaxEmits
\* the str values emit is called with, as code points: the empty string and
\* "e-acute" (two bytes in UTF-8, so a write can stop inside the character).
\* Neither is the encoding of an intent.
Payloads == {<<>>, <<233>>}
\* the three lifecycle areas under the queue root
Areas == {"pending", "done", "failed"}

VARIABLES
    dirs,    \* the areas that exist under the queue root
    files,   \* the file system below the root: path -> bytes
    pc,      \* per producer: position in its program
    fname,   \* per producer: local fname of the running emit
    data,    \* per producer: argument intent_json of the running emit
    off,     \* per producer: bytes of the running write_text that reached the file
    calls,   \* history of the emit calls, by uuid: payload and outcome
    nCalls,  \* number of emit calls made
    ser,     \* the producer side of one hand-off: the intent object and what
             \* was done with it (serialize_intent calls, assignments, emit)
    hyp,     \* a Hypothesis instance: its class and its attributes
    market,  \* the snapshot (market_state) of the last on_bar call
    ret,     \* what the last on_bar call gave its caller
    log,     \* the records the diagnostic logger received
    memo,    \* an earlier on_bar call that is remembered: snapshot and decision
    classes, \* the subclasses of Hypothesis, each the child of the one before:
             \* what the class body holds and the class's attribute on_bar
    hooks,   \* number of runs of _log_signal_intent in the last on_bar call
    manager, \* whether MANAGER is set (MODEL_DIR was given)
    db,      \* per telegram user: the User row and its UserContext
    sessions,\* per telegram user: the session MANAGER runs, by its mode
    reply    \* the last reply_text of a handler

vars == <<dirs, files, pc, fname, data, off, calls, nCalls>>

\* the state of a strategy and of its caller
strategy == <<hyp, market, ret, log, memo>>

\* the state of the steps before the sink, which the sink does not touch
upstream == <<ser, hyp, market, ret, log, memo, classes, hooks, manager, db, sessions, reply>>

\* the class hierarchy below Hypothesis
hierarchy == <<classes, hooks>>

\* the state of the telegram bot
telebot == <<manager, db, sessions, reply>>

\* ------------------------------------------------------- pure operations

\* (variant) the text is encoded as Latin-1, one byte per code point
utf8_char_latin1(c) == <<c>>

\* str -> bytes as Path.write_text does it (UTF-8, code points below 2048)
utf8_char(c) == IF c < 128 THEN <<c>> ELSE <<192 + (c \div 64), 128 + (c % 64)>>

RECURSIVE utf8_encode(_)
utf8_encode(s) == IF s = <<>> THEN <<>> ELSE utf8_char(Head(s)) \o utf8_encode(Tail(s))

\* the uuids already returned by uuid4
IssuedUUIDs == DOMAIN calls

\* (variant) the token is not fresh: any value, also one returned before
uuid4_reused == UUIDs

\* uuid.uuid4(): a random 122-bit value, never one returned before. The values
\* are interchangeable tokens, so the least unused one stands for all of them.
uuid4 == {u \in UUIDs \ IssuedUUIDs : \A v \in UUIDs \ IssuedUUIDs : u <= v}

\* (variant) one fixed entry name instead of a name made from the uuid
EntryName_Fixed(u) == <<1, ".json">>

\* fname = f"{uuid.uuid4()}.json"
EntryName(u) == <<u, ".json">>

\* (variant) the entry is renamed into the done area
FinalPath_Done(fn) == <<"done", fn>>

\* final = self.pending / fname
FinalPath(fn) == <<"pending", fn>>

\* (variant) no temporary file: the payload is written under the final name
TmpPath_InPlace(fn) == FinalPath(fn)

\* (variant) one temporary name shared by all emits
TmpPath_Shared(fn) == <<"pending", <<0, ".json", ".tmp">>>>

\* tmp = self.pending / f"{fname}.tmp"
TmpPath(fn) == <<"pending", Append(fn, ".tmp")>>

\* the file system after path holds content (created or replaced)
put(fs, path, content) ==
    [q \in DOMAIN fs \cup {path} |-> IF q = path THEN content ELSE fs[q]]

\* the file system without path
unlink(fs, path) == [q \in DOMAIN fs \ {path} |-> fs[q]]

\* (variant) the rename is skipped (the temporary file dropped) when an entry
\* with the same content exists
rename_dedup(fs, src, dst) ==
    IF \E q \in DOMAIN fs \ {src} : Len(q[2]) = 2 /\ fs[q] = fs[src]
    THEN unlink(fs, src)
    ELSE put(unlink(fs, src), dst, fs[src])

\* POSIX rename(2): dst atomically becomes the file src was, replacing any dst
rename(fs, src, dst) == put(unlink(fs, src), dst, fs[src])

\* (variant) write_text returns while bytes are still buffered
write_text_done_early(n, bytes) == TRUE

\* write_text returns once every byte reached the file and the file is closed
write_text_done(n, bytes) == n = Len(bytes)

IsEntryName(fn) == Len(fn) = 2 /\ fn[2] = ".json"

\* the outcome st is recorded for the emit call that generated fn
Outcome(h, fn, st) ==
    [u \in DOMAIN h |-> IF u = fn[1] THEN [h[u] EXCEPT !.st = st] ELSE h[u]]

NoFiles == [q \in {} |-> <<>>]

\* no hand-off is being prepared
NoCall == [intent |-> <<>>, outs |-> <<>>, raised |-> FALSE, handed |-> <<>>]

\* on_bar was not called yet
NoRet == [kind |-> "none", original |-> [type |-> "-", size |-> 0],
          value |-> [type |-> "-", size |-> 0], fault |-> "none"]

\* no strategy is running
StrategyOff ==
    /\ hyp = <<>>
    /\ market = <<>>
    /\ ret = NoRet
    /\ log = <<>>
    /\ memo = <<>>

\* no subclass of Hypothesis was defined
HierarchyOff ==
    /\ classes = <<>>
    /\ hooks = 0

\* no telegram bot is running
TelebotOff ==
    /\ manager = FALSE
    /\ db = <<>>
    /\ sessions = <<>>
    /\ reply = <<>>

\* (variant) the area is made anew: what it held is gone
mkdir_fresh(root, area) ==
    [dirs |-> root.dirs \cup {area},
     files |-> [q \in {r \in DOMAIN root.files : r[1] # area} |-> root.files[q]]]

\* path.mkdir(parents=True, exist_ok=True): the area exists afterwards; an
\* area that exists is left as it is
mkdir(root, area) == [dirs |-> root.dirs \cup {area}, files |-> root.files]

\* for path in (self.pending, self.done, self.failed): path.mkdir(...)
bootstrap(root) == mkdir(mkdir(mkdir(root, "pending"), "done"), "failed")

\* --------------------------------------------------------------- actions

Init ==
    /\ dirs \in SUBSET Areas
    /\ files = NoFiles
    /\ pc = [p \in Producers |-> "new"]
    /\ fname = [p \in Producers |-> <<>>]
    /\ data = [p \in Producers |-> <<>>]
    /\ off = [p \in Producers |-> 0]
    /\ calls = NoFiles
    /\ nCalls = 0
    /\ ser = NoCall
    /\ StrategyOff
    /\ HierarchyOff
    /\ TelebotOff

\* FileIntentSink(root): mkdir(parents=True, exist_ok=True) of the three areas
Construct(p) ==
    /\ pc[p] \in {"new", "idle"}
    /\ dirs' = bootstrap([dirs |-> dirs, files |-> files]).dirs
    /\ files' = bootstrap([dirs |-> dirs, files |-> files]).files
    /\ pc' = [pc EXCEPT ![p] = "idle"]
    /\ UNCHANGED <<fname, data, off, calls, nCalls>>
    /\ UNCHANGED upstream

\* emit(intent_json), lines 17-20: the names are computed and write_text opens
\* tmp with open(tmp, "w"): the file exists and is empty
EmitCall(p, intent_json) ==
    /\ pc[p] = "idle"
    /\ nCalls < MaxEmits
    /\ \E u \in uuid4 :
        /\ fname' = [fname EXCEPT ![p] = EntryName(u)]
        /\ calls' = put(calls, u, [payload |-> intent_json, st |-> "running"])
        /\ files' = put(files, TmpPath(EntryName(u)), <<>>)
    /\ nCalls' = nCalls + 1
    /\ data' = [data EXCEPT ![p] = intent_json]
    /\ pc' = [pc EXCEPT ![p] =
                IF write_text_done(0, utf8_encode(intent_json)) THEN "rename" ELSE "writing"]
    /\ UNCHANGED <<dirs, off>>
    /\ UNCHANGED upstream

\* emit(intent_json), lines 17-20: open(tmp, "w") raises an OSError (permission
\* denied, no space for a new file), nothing is created and emit is left
EmitCallOpenFails(p, intent_json) ==
    /\ pc[p] = "idle"
    /\ nCalls < MaxEmits
    /\ \E u \in uuid4 :
        calls' = put(calls, u, [payload |-> intent_json, st |-> "failed"])
    /\ nCalls' = nCalls + 1
    /\ UNCHANGED <<dirs, files, pc, fname, data, off>>
    /\ UNCHANGED upstream

\* write_text, a flush: the first k bytes of the encoded payload are in the file
Write(p, k) ==
    /\ pc[p] = "writing"
    /\ k > off[p]
    /\ k <= Len(utf8_encode(data[p]))
    /\ TmpPath(fname[p]) \in DOMAIN files
    /\ files' = put(files, TmpPath(fname[p]), SubSeq(utf8_encode(data[p]), 1, k))
    /\ IF write_text_done(k, utf8_encode(data[p]))
       THEN pc' = [pc EXCEPT ![p] = "rename"] /\ off' = [off EXCEPT ![p] = 0]
       ELSE pc' = pc /\ off' = [off EXCEPT ![p] = k]
    /\ UNCHANGED <<dirs, fname, data, calls, nCalls>>
    /\ UNCHANGED upstream

\* the locals of emit are gone when it is left
Leave(p, st, position) ==
    /\ calls' = Outcome(calls, fname[p], st)
    /\ pc' = [pc EXCEPT ![p] = position]
    /\ fname' = [fname EXCEPT ![p] = <<>>]
    /\ data' = [data EXCEPT ![p] = <<>>]
    /\ off' = [off EXCEPT ![p] = 0]

\* tmp.rename(final), then emit returns None
Rename(p) ==
    /\ pc[p] = "rename"
    /\ TmpPath(fname[p]) \in DOMAIN files
    /\ files' = rename(files, TmpPath(fname[p]), FinalPath(fname[p]))
    /\ Leave(p, "ok", "idle")
    /\ UNCHANGED <<dirs, nCalls>>
    /\ UNCHANGED upstream

\* an OSError (storage full, ...) from a write or from the rename leaves emit;
\* emit has no handler and no cleanup
Raise(p) ==
    /\ pc[p] \in {"writing", "rename"}
    /\ Leave(p, "failed", "idle")
    /\ UNCHANGED <<dirs, files, nCalls>>
    /\ UNCHANGED upstream

\* the producing process is killed: its sink object is gone, what it wrote so
\* far stays in the file system, and a new process may construct a sink again
Crash(p) ==
    /\ pc[p] \in {"idle", "writing", "rename"}
    /\ IF pc[p] = "idle"
       THEN pc' = [pc EXCEPT ![p] = "new"] /\ UNCHANGED <<calls, fname, data, off>>
       ELSE Leave(p, "failed", "new")
    /\ UNCHANGED <<dirs, files, nCalls>>
    /\ UNCHANGED upstream

\* the consumer (external collaborator) moves an entry of pending to done or failed
ConsumerMove(fn, area) ==
    /\ area \in {"done", "failed"}
    /\ area \in dirs
    /\ <<"pending", fn>> \in DOMAIN files
    /\ IsEntryName(fn)
    /\ files' = put(unlink(files, <<"pending", fn>>), <<area, fn>>, files[<<"pending", fn>>])
    /\ UNCHANGED <<dirs, pc, fname, data, off, calls, nCalls>>
    /\ UNCHANGED upstream

Next ==
    \/ \E p \in Producers : Construct(p)
    \/ \E p \in Producers, s \in Payloads : EmitCall(p, s)
    \/ \E p \in Producers, s \in Payloads : EmitCallOpenFails(p, s)
    \/ \E p \in Producers : \E k \in 1..Len(utf8_encode(data[p])) : Write(p, k)
    \/ \E p \in Producers : Rename(p)
    \/ \E p \in Producers : Raise(p)
    \/ \E p \in Producers : Crash(p)
    \/ \E fn \in {EntryName(u) : u \in UUIDs}, area \in {"done", "failed"} :
          ConsumerMove(fn, area)

Spec == Init /\ [][Next]_vars

\* ------------------------------------------------------------ properties

\* the names a consumer gets when it lists an area
Listing(area) == {q[2] : q \in {r \in DOMAIN files : r[1] = area}}

\* a file named fn is in area
InArea(fn, area) == <<area, fn>> \in DOMAIN files

\* the queue entries (files under an entry name) of all areas
EntryPaths == {q \in DOMAIN files : IsEntryName(q[2])}

\* the emit calls that returned successfully
Accepted == {u \in DOMAIN calls : calls[u].st = "ok"}

\* the entry of call u is in area with the complete payload of the call
Holds(u, area) ==
    /\ <<area, EntryName(u)>> \in DOMAIN files
    /\ files[<<area, EntryName(u)>>] = utf8_encode(calls[u].payload)

\* the temporary file of call u is in pending with fewer bytes than the payload
Truncated(u) ==
    /\ TmpPath(EntryName(u)) \in DOMAIN files
    /\ Len(files[TmpPath(EntryName(u))]) < Len(utf8_encode(calls[u].payload))

\* this step is a step of producer p (of its emit, its constructor or its death)
ProducerStep(p) == pc'[p] # pc[p] \/ off'[p] # off[p]

\* emit of call u returns successfully in this step
Returns(u) == u \in DOMAIN calls /\ calls[u].st = "running" /\ calls'[u].st = "ok"

\* bytes -> str, the inverse of the UTF-8 encoding; -1 marks an undecodable byte
RECURSIVE utf8_decode(_)
utf8_decode(b) ==
    IF b = <<>> THEN <<>>
    ELSE IF b[1] < 128 THEN <<b[1]>> \o utf8_decode(Tail(b))
    ELSE IF Len(b) >= 2 /\ b[1] >= 192 /\ b[2] >= 128 /\ b[2] < 192
         THEN <<(b[1] - 192) * 64 + (b[2] - 128)>> \o utf8_decode(Tail(Tail(b)))
         ELSE <<-1>>

\* C1: every file that is in pending under an entry name <uuid>.json holds the
\* complete encoded payload of the emit call that generated that name, in every
\* reachable state (emits in progress, failed and killed included).
C1_AtomicVisibility ==
    \A fn \in Listing("pending") :
        IsEntryName(fn) =>
            /\ fn[1] \in DOMAIN calls
            /\ files[<<"pending", fn>>] = utf8_encode(calls[fn[1]].payload)

\* C1 witness: an entry is visible in pending while a failed or killed emit of a
\* non-empty payload has left its truncated temporary file behind.
C1_Witness ==
    /\ \E fn \in Listing("pending") : IsEntryName(fn)
    /\ \E u \in DOMAIN calls : calls[u].st = "failed" /\ Truncated(u)

\* C2: a consumer that lists pending never sees the temporary file of an emit
\* that is in progress.
C2_TmpNotObserved ==
    \A p \in Producers :
        pc[p] \in {"writing", "rename"} => TmpPath(fname[p])[2] \notin Listing("pending")

\* C3: an emit that failed or was interrupted before its rename has left no file
\* in pending (the names are generated per call, so the files of the call are
\* those that carry its uuid).
C3_FailedEmitLeavesNoTrace ==
    \A u \in DOMAIN calls :
        calls[u].st = "failed" => \A fn \in Listing("pending") : fn[1] # u

\* C4: when emit returns successfully its entry is in pending with the full
\* payload, and no later step of a producer (a kill of the producing process
\* included) removes or alters it; only the consumer takes it out of pending,
\* and then the entry is in done or failed with the same content.
C4_DurableAfterReturn ==
    [][ /\ \A u \in DOMAIN calls : Returns(u) => Holds(u, "pending")'
        /\ \A u \in Accepted :
              /\ \E area \in Areas : Holds(u, area)'
              /\ \A area \in Areas :
                    Holds(u, area) /\ (\E p \in Producers : ProducerStep(p))
                        => Holds(u, area)'
      ]_vars

\* C4 witness: an accepted entry is in pending with its payload after every
\* producer process has been killed.
C4_Witness ==
    /\ \E u \in Accepted : Holds(u, "pending") /\ calls[u].payload # <<>>
    /\ \A p \in Producers : pc[p] = "new"

\* C5: an entry name first appears in pending, moves only from pending to done
\* or to failed, stays where it is once in done or failed, and is in one area at
\* a time; so a name that left pending is never in pending again.
C5_Lifecycle ==
    [][ \A u \in UUIDs :
          LET fn == EntryName(u)
              in(area) == InArea(fn, area)
          IN  /\ in("done") => in("done")' /\ ~in("pending")' /\ ~in("failed")'
              /\ in("failed") => in("failed")' /\ ~in("pending")' /\ ~in("done")'
              /\ in("pending") =>
                    Cardinality({area \in Areas : InArea(fn, area)'}) = 1
              /\ (\A area \in Areas : ~in(area)) => ~in("done")' /\ ~in("failed")'
      ]_vars

\* C5 witness: one entry is in done, one in failed, and a later one in pending.
C5_Witness ==
    \E u, v, w \in UUIDs :
        /\ u < w /\ v < w
        /\ InArea(EntryName(u), "done")
        /\ InArea(EntryName(v), "failed")
        /\ InArea(EntryName(w), "pending")

\* C6: a step of a producer leaves every file of done and failed and every
\* entry of pending as it is and creates files in pending only; an entry is
\* added only by the step in which emit returns successfully, and then exactly
\* one entry is added and the temporary file of that emit is gone.
C6_OnlyCreatesInPending ==
    [][ (\E p \in Producers : ProducerStep(p)) =>
          LET new == DOMAIN files' \ DOMAIN files
              newEntries == {q \in new : IsEntryName(q[2])}
          IN  /\ \A q \in DOMAIN files :
                    q[1] # "pending" \/ IsEntryName(q[2])
                        => q \in DOMAIN files' /\ files'[q] = files[q]
              /\ \A q \in new : q[1] = "pending"
              /\ IF \E u \in DOMAIN calls : Returns(u)
                 THEN /\ Cardinality(newEntries) = 1
                      /\ Cardinality(DOMAIN files') = Cardinality(DOMAIN files)
                 ELSE newEntries = {}
      ]_vars

\* C6 witness: an emit has returned successfully and another has failed while
\* done and failed both hold entries.
C6_Witness ==
    /\ Cardinality(Accepted) >= 2
    /\ \E u \in DOMAIN calls : calls[u].st = "failed"
    /\ Listing("done") # {} /\ Listing("failed") # {}

\* C7: with two producers interleaving their steps, every successful emit has
\* exactly one entry, holding its payload, and no temporary file left; and a
\* step of one producer changes no file other than the temporary and final file
\* of its own running emit, in particular not the temporary file of the other.
C7_MultiProducer ==
    /\ [](\A u \in Accepted :
            /\ Cardinality({area \in Areas : InArea(EntryName(u), area)}) = 1
            /\ \E area \in Areas : Holds(u, area)
            /\ TmpPath(EntryName(u)) \notin DOMAIN files)
    /\ [][ \A p \in Producers : ProducerStep(p) =>
             /\ \A q \in DOMAIN files :
                   q \notin {TmpPath(fname[p]), FinalPath(fname[p])}
                       => q \in DOMAIN files' /\ files'[q] = files[q]
             /\ \A r \in Producers \ {p} :
                   pc[r] \in {"writing", "rename"} =>
                       /\ TmpPath(fname[r]) \in DOMAIN files'
                       /\ files'[TmpPath(fname[r])] = files[TmpPath(fname[r])]
         ]_vars

\* C7 witness: both producers are inside emit with their temporary files
\* written while an entry of an earlier emit is in pending.
C7_Witness ==
    /\ \A p \in Producers :
          /\ pc[p] \in {"writing", "rename"}
          /\ TmpPath(fname[p]) \in DOMAIN files
          /\ files[TmpPath(fname[p])] # <<>>
    /\ \E u \in Accepted : Holds(u, "pending")

\* C8: the entry names generated by the emit calls are pairwise distinct, and
\* there are as many entries as emits that returned successfully.
C8_UniqueNames ==
    /\ Cardinality({EntryName(u) : u \in DOMAIN calls}) = nCalls
    /\ Cardinality(EntryPaths) = Cardinality(Accepted)

\* C8 witness: every emit call of the run has returned successfully.
C8_Witness == nCalls = MaxEmits /\ Cardinality(Accepted) = MaxEmits

\* C9: for every payload there are as many entries with that content as emits
\* of that payload that returned successfully: an equal payload is never
\* suppressed, merged or replaced.
C9_RetryDuplicates ==
    \A s \in Payloads :
        Cardinality({q \in EntryPaths : files[q] = utf8_encode(s)})
            = Cardinality({u \in Accepted : calls[u].payload = s})

\* C9 witness: the same payload was emitted twice and both entries are in
\* pending under different names.
C9_Witness ==
    \E u, v \in Accepted :
        /\ u # v
        /\ calls[u].payload = calls[v].payload
        /\ Holds(u, "pending") /\ Holds(v, "pending")

\* C10: an idle sink accepts every payload (emit has no precondition on it), and
\* in the step in which emit returns successfully the text read back from the
\* created entry is the payload.
C10_FormatAgnostic ==
    /\ [](\A p \in Producers :
            pc[p] = "idle" /\ nCalls < MaxEmits =>
                \A s \in Payloads : ENABLED EmitCall(p, s))
    /\ [][ \A u \in DOMAIN calls :
             Returns(u) =>
                /\ FinalPath(EntryName(u)) \in DOMAIN files'
                /\ utf8_decode(files'[FinalPath(EntryName(u))]) = calls[u].payload
         ]_vars

\* C10 witness: the empty payload and a two-byte payload were both accepted and
\* are readable in pending.
C10_Witness ==
    \E u, v \in Accepted :
        /\ calls[u].payload = <<>> /\ Holds(u, "pending")
        /\ calls[v].payload = <<233>> /\ Holds(v, "pending")

\* C11: constructing a sink on the root creates the areas that are missing and
\* nothing else: the areas that exist, every file in them and the set of files
\* are as before; constructing again on the result changes nothing. This holds
\* on every reachable root (entries and temporary files present), and every
\* step that constructs a sink has that effect.
C11_BootstrapIdempotent ==
    /\ [](LET root == [dirs |-> dirs, files |-> files]
              once == bootstrap(root)
          IN  /\ once.dirs = dirs \cup Areas
              /\ once.files = files
              /\ bootstrap(once) = once
              /\ Areas \subseteq dirs => once = root)
    /\ [][ \A p \in Producers :
             pc[p] = "new" /\ pc'[p] = "idle" =>
                /\ dirs' = dirs \cup Areas
                /\ files' = files
         ]_vars

\* C11 witness: one sink is constructed on the root, entries are in pending and
\* in done, and another process is about to construct a sink on the same root.
C11_Witness ==
    /\ \E p, q \in Producers : pc[p] = "idle" /\ pc[q] = "new"
    /\ \E u, v \in UUIDs :
          InArea(EntryName(u), "pending") /\ InArea(EntryName(v), "done")

\* ======================================================================
\* The encoding of an intent (src/execution_live/intent_schema.py,
\* src/execution_live/intent_serializer.py). Texts are sequences of tokens;
\* a price or quantity is a number of tenths.
\* ======================================================================

\* bound: a timestamp falls on one of the hours 0..MaxHour of one day
MaxHour == 1
\* bound: number of serialize_intent calls made on one intent object
MaxSer == 2

\* (variant) the fields are declared in alphabetical order
Fields_Sorted ==
    <<"intent_id", "mode", "order_type", "policy_hash", "quantity", "side",
      "stop_loss", "symbol", "take_profit", "time_in_force", "timestamp">>

\* the fields of the frozen dataclass ExecutionIntent, in declaration order
Fields ==
    <<"intent_id", "timestamp", "symbol", "side", "order_type", "quantity",
      "stop_loss", "take_profit", "time_in_force", "policy_hash", "mode">>

\* Optional[float]: None, or a float
None == [some |-> FALSE, v |-> 0]
Some(t) == [some |-> TRUE, v |-> t]

\* what the constructor takes as timestamp (no type is enforced): None, a naive
\* datetime (tzinfo None), or an aware one with a UTC offset in whole hours
Timestamps ==
    {[kind |-> "none", hour |-> 0, off |-> 0]}
    \cup {[kind |-> "naive", hour |-> h, off |-> 0] : h \in 0..MaxHour}
    \cup {[kind |-> "aware", hour |-> h, off |-> o] : h \in 0..MaxHour, o \in {0, 1}}

\* the intent objects of the model
Intents ==
    [intent_id : {"id1", "id2"}, timestamp : Timestamps, symbol : {"EURUSD"},
     side : {"BUY", "SELL"}, order_type : {"MARKET"}, quantity : {1, 10},
     stop_loss : {None, Some(0), Some(15)}, take_profit : {None, Some(0)},
     time_in_force : {"GTC"}, policy_hash : {"ph"}, mode : {"PAPER"}]

\* two decimal digits
Pad2(n) == <<ToString(n \div 10), ToString(n % 10)>>

\* datetime.isoformat(): the wall clock, then the UTC offset if the datetime is
\* aware and nothing if it is naive
isoformat(dt) ==
    <<"2024-01-01", "T">> \o Pad2(dt.hour) \o <<":", "00", ":", "00">>
    \o (IF dt.kind = "aware" THEN <<"+">> \o Pad2(dt.off) \o <<":", "00">> ELSE <<>>)

\* float.__repr__ as json.dumps uses it, for a non-negative number of tenths
float_repr(t) == <<ToString(t \div 10), ".", ToString(t % 10)>>

\* a JSON string literal (the texts of the model need no escape)
json_string(text) == <<"\"">> \o text \o <<"\"">>

\* (variant) None is encoded as the number zero
json_null_zero == float_repr(0)

\* json.dumps(None)
json_null == <<"null">>

\* dataclasses.asdict: a new dict of the field values, in field order
asdict(obj) == [i \in 1..Len(Fields) |-> <<Fields[i], obj[Fields[i]]>>]

\* lines 9-11 and the encoder of json.dumps, for the value v of field f: a
\* timestamp that is not None is replaced by its isoformat() text; None gives
\* null, a float its repr, a str a string literal
json_value(f, v) ==
    CASE f = "timestamp" ->
            IF v.kind = "none" THEN json_null ELSE json_string(isoformat(v))
      [] f \in {"stop_loss", "take_profit"} ->
            IF v.some THEN float_repr(v.v) ELSE json_null
      [] f = "quantity" -> float_repr(v)
      [] OTHER -> json_string(<<v>>)

\* the members of the object from the i-th on, separators=(",", ":")
RECURSIVE json_items(_, _)
json_items(d, i) ==
    IF i > Len(d) THEN <<>>
    ELSE json_string(<<d[i][1]>>) \o <<":">> \o json_value(d[i][1], d[i][2])
         \o (IF i < Len(d) THEN <<",">> ELSE <<>>) \o json_items(d, i + 1)

\* json.dumps(data, separators=(",", ":")): the members in the order of the dict
json_dumps(d) == <<"{">> \o json_items(d, 1) \o <<"}">>

\* serialize_intent(intent)
serialize_intent(intent) == json_dumps(asdict(intent))

\* (variant) the dataclass is not frozen: the assignment is made
setattr_plain(obj, f, v) == [obj |-> [obj EXCEPT ![f] = v], raised |-> FALSE]

\* intent.f = v on a frozen dataclass: FrozenInstanceError, nothing is assigned
setattr(obj, f, v) == [obj |-> obj, raised |-> TRUE]

\* the sink is not running
SinkOff ==
    /\ dirs = Areas
    /\ files = NoFiles
    /\ pc = [p \in Producers |-> "new"]
    /\ fname = [p \in Producers |-> <<>>]
    /\ data = [p \in Producers |-> <<>>]
    /\ off = [p \in Producers |-> 0]
    /\ calls = NoFiles
    /\ nCalls = 0

\* an intent object has been constructed
SerInit ==
    /\ SinkOff
    /\ StrategyOff
    /\ HierarchyOff
    /\ TelebotOff
    /\ ser \in [intent : Intents, outs : {<<>>}, raised : {FALSE}, handed : {<<>>}]

\* text = serialize_intent(intent)
Serialize ==
    /\ Len(ser.outs) < MaxSer
    /\ ser' = [ser EXCEPT !.outs = Append(@, serialize_intent(ser.intent))]
    /\ UNCHANGED <<vars, strategy, hierarchy, telebot>>

\* sink.emit(serialize_intent(intent)): the text is handed to the sink
SerializeAndEmit ==
    /\ Len(ser.outs) < MaxSer
    /\ ser' = [ser EXCEPT !.outs = Append(@, serialize_intent(ser.intent)),
                          !.handed = serialize_intent(ser.intent)]
    /\ UNCHANGED <<vars, strategy, hierarchy, telebot>>

\* intent.f = v
Assign(f, v) ==
    /\ ser' = [ser EXCEPT !.intent = setattr(ser.intent, f, v).obj,
                          !.raised = setattr(ser.intent, f, v).raised]
    /\ ser' # ser
    /\ UNCHANGED <<vars, strategy, hierarchy, telebot>>

SerNext ==
    \/ Serialize
    \/ SerializeAndEmit
    \/ \E v \in {1, 10} : Assign("quantity", v)
    \/ \E v \in {None, Some(0), Some(15)} : Assign("stop_loss", v)

SerSpec == SerInit /\ [][SerNext]_<<vars, upstream>>

\* ------------------------------------------- properties of the encoding

\* the encoding of every intent of the model
Wire == [y \in Intents |-> serialize_intent(y)]

\* the index of the next token tok of text at or after i (Len + 1 if none)
RECURSIVE find(_, _, _)
find(text, tok, i) ==
    IF i > Len(text) \/ text[i] \in tok THEN i ELSE find(text, tok, i + 1)

\* a reader of the wire format: the members of the object that starts at token
\* i - 1, as pairs of key and value text
RECURSIVE json_members(_, _)
json_members(text, i) ==
    IF i + 3 > Len(text) THEN <<>>
    ELSE LET key == text[i + 1]
             from == i + 4
             to == IF text[from] = "\""
                   THEN find(text, {"\""}, from + 1) + 1
                   ELSE find(text, {",", "}"}, from)
         IN  <<<<key, SubSeq(text, from, to - 1)>>>> \o json_members(text, to + 1)

json_loads(text) == json_members(text, 2)

\* the keys of the object, in the order of the text
json_keys(text) == LET m == json_loads(text) IN [i \in DOMAIN m |-> m[i][1]]

\* the value text of the first member named key among the members m
member(m, key) ==
    m[CHOOSE j \in DOMAIN m : m[j][1] = key /\ \A k \in 1..(j - 1) : m[k][1] # key][2]

\* the value text of the first member named key of the object
json_get(text, key) == member(json_loads(text), key)

\* the reader's conversions, inverse to the encoder's
digit(tok) == CHOOSE n \in 0..9 : ToString(n) = tok
number(tok) == CHOOSE n \in 0..99 : ToString(n) = tok
float_parse(text) == 10 * number(text[1]) + digit(text[3])
fromisoformat(text) ==
    [kind |-> IF Len(text) > 10 THEN "aware" ELSE "naive",
     hour |-> 10 * digit(text[4]) + digit(text[5]),
     off |-> IF Len(text) > 10 THEN 10 * digit(text[11]) + digit(text[12]) ELSE 0]
optional_parse(text) == IF text = <<"null">> THEN None ELSE Some(float_parse(text))

\* the intent a reader rebuilds from a text of the wire format
decode(text) ==
    LET m == json_loads(text)
    IN  [intent_id |-> member(m, "intent_id")[2],
         timestamp |-> IF member(m, "timestamp") = <<"null">>
                       THEN [kind |-> "none", hour |-> 0, off |-> 0]
                       ELSE fromisoformat(member(m, "timestamp")),
         symbol |-> member(m, "symbol")[2],
         side |-> member(m, "side")[2],
         order_type |-> member(m, "order_type")[2],
         quantity |-> float_parse(member(m, "quantity")),
         stop_loss |-> optional_parse(member(m, "stop_loss")),
         take_profit |-> optional_parse(member(m, "take_profit")),
         time_in_force |-> member(m, "time_in_force")[2],
         policy_hash |-> member(m, "policy_hash")[2],
         mode |-> member(m, "mode")[2]]

\* C12: the encoding is lossless. No other intent has the text that the last
\* call of serialize_intent gave for this intent, a reader of the text rebuilds the
\* intent field for field, and an absent stop_loss or take_profit is the text
\* null while a present one, also the price 0, is a number.
C12_Lossless ==
    \A i \in {Len(ser.outs)} \ {0} :
        /\ \A y \in Intents : Wire[y] = ser.outs[i] => y = ser.intent
        /\ decode(ser.outs[i]) = ser.intent
        /\ \A f \in {"stop_loss", "take_profit"} :
              /\ ~ser.intent[f].some <=> json_get(ser.outs[i], f) = <<"null">>
              /\ ser.intent[f].some => json_get(ser.outs[i], f) = float_repr(ser.intent[f].v)

\* an intent with the least quantity, no stop_loss and take_profit 0 was encoded
C12_Witness ==
    /\ ser.outs # <<>>
    /\ ser.intent.quantity = 1
    /\ ser.intent.stop_loss = None
    /\ ser.intent.take_profit = Some(0)
    /\ ser.intent.timestamp.kind = "aware"

\* the encoded timestamp names a UTC offset
has_offset(text) == \E i \in DOMAIN text : text[i] \in {"+", "-", "Z"}

\* the instant an aware timestamp denotes, in hours UTC
instant(dt) == dt.hour - dt.off

\* C13: the encoded timestamp of every intent that serialize_intent accepts
\* names its timezone or UTC offset, and two intents whose timestamps denote
\* different instants never get the same timestamp text.
C13_TimezoneExplicit ==
    \A i \in DOMAIN ser.outs :
        /\ has_offset(json_get(ser.outs[i], "timestamp"))
        /\ \A y \in Intents :
              /\ y.timestamp.kind = "aware" /\ ser.intent.timestamp.kind = "aware"
              /\ instant(y.timestamp) # instant(ser.intent.timestamp)
              => json_get(Wire[y], "timestamp") # json_get(ser.outs[i], "timestamp")

\* the field names of the wire format, in its order
WireLayout ==
    <<"intent_id", "timestamp", "symbol", "side", "order_type", "quantity",
      "stop_loss", "take_profit", "time_in_force", "policy_hash", "mode">>

\* C14: the text serialize_intent returns is one object whose members are the
\* eleven fields of the wire layout, in its order, each once and no other; an
\* absent stop_loss or take_profit is a member with the value null.
C14_WireLayout ==
    \A i \in DOMAIN ser.outs :
        /\ Head(ser.outs[i]) = "{"
        /\ ser.outs[i][Len(ser.outs[i])] = "}"
        /\ json_keys(ser.outs[i]) = WireLayout
        /\ \A f \in {"stop_loss", "take_profit"} :
              ~ser.intent[f].some => json_get(ser.outs[i], f) = <<"null">>

\* an intent without stop_loss and take_profit was encoded
C14_Witness ==
    /\ ser.outs # <<>>
    /\ ser.intent.stop_loss = None
    /\ ser.intent.take_profit = None

\* C15: serialize_intent and emit leave the intent as it is, an assignment to
\* a field of the intent raises and changes nothing, and every encoding of the
\* intent is the same text, which is also the text handed to the sink.
C15_Immutable ==
    /\ [][ /\ ser'.intent = ser.intent
           /\ Len(ser'.outs) = Len(ser.outs) => ser'.raised
         ]_ser
    /\ [](\A i, j \in DOMAIN ser.outs : ser.outs[i] = ser.outs[j])
    /\ [](ser.handed # <<>> => \A i \in DOMAIN ser.outs : ser.outs[i] = ser.handed)

\* the intent was encoded MaxSer times, handed to the sink, and an assignment
\* to it was tried between two encodings
C15_Witness ==
    /\ Len(ser.outs) >= 2
    /\ ser.handed # <<>>
    /\ ser.raised

\* ======================================================================
\* Strategies (src/hypotheses/base.py) and the strategy CompetitionHailMary
\* (src/hypotheses/competition/competition_hail_mary.py). Prices are whole
\* numbers, indicator values are exact fractions <<numerator, denominator>>.
\* ======================================================================

\* bound: lookback and slow_period of an instance are in 1..MaxPeriod
MaxPeriod == 2
\* the safety buffer of required_bars
Buffer == 10
\* the default RSI thresholds of the constructor
rsi_oversold_default == 20
rsi_overbought_default == 80

\* the closes of the bars
Prices == {1, 2}

\* TradeIntent(type=t, size=1.0): size 1.0 is the default of the field
TradeIntent(t) == [type |-> t, size |-> 10]

\* on_bar returned None
NoIntent == [type |-> "None", size |-> 0]

\* ---- fractions
RECURSIVE gcd(_, _)
gcd(a, b) == IF b = 0 THEN a ELSE gcd(b, a % b)
qnorm(q) == LET g == gcd(q[1], q[2]) IN IF g = 0 THEN q ELSE <<q[1] \div g, q[2] \div g>>
qless(a, b) == a[1] * b[2] < b[1] * a[2]

max(a, b) == IF a > b THEN a ELSE b

\* _ema(data, period)[i - 1] (the model counts from 1): alpha = 2 / (period + 1),
\* ema[0] = data[0], ema[i] = alpha * data[i] + (1 - alpha) * ema[i - 1]
RECURSIVE ema(_, _, _)
ema(xs, period, i) ==
    IF i = 1 THEN <<xs[1], 1>>
    ELSE LET e == ema(xs, period, i - 1)
         IN  qnorm(<<2 * xs[i] * e[2] + (period - 1) * e[1], (period + 1) * e[2]>>)

\* np.diff, np.where(deltas > 0, deltas, 0), np.where(deltas < 0, -deltas, 0)
gains(closes) == [i \in 1..(Len(closes) - 1) |-> max(closes[i + 1] - closes[i], 0)]
losses(closes) == [i \in 1..(Len(closes) - 1) |-> max(closes[i] - closes[i + 1], 0)]

RECURSIVE sum(_, _)
sum(xs, n) == IF n = 0 THEN 0 ELSE xs[n] + sum(xs, n - 1)

\* Wilder's smoothing up to the i-th change: <<avg_gain, avg_loss>> as numerators
\* over the common denominator period^(i - period + 1)
RECURSIVE wilder(_, _, _, _)
wilder(g, l, period, i) ==
    IF i = period THEN <<sum(g, period), sum(l, period), period>>
    ELSE LET w == wilder(g, l, period, i - 1)
         IN  <<w[1] * (period - 1) + g[i] * w[3],
               w[2] * (period - 1) + l[i] * w[3],
               w[3] * period>>

\* _calculate_rsi(closes)
calculate_rsi(self, closes) ==
    IF Len(closes) - 1 < self.params.rsi_period THEN <<50, 1>>
    ELSE LET w == wilder(gains(closes), losses(closes), self.params.rsi_period,
                         Len(closes) - 1)
         IN  IF w[2] = 0 THEN <<100, 1>> ELSE <<100 * w[1], w[1] + w[2]>>

\* required_bars = max(self.lookback, self.slow_period) + 10
required_bars(self) == max(self.params.lookback, self.params.slow_period) + Buffer

\* market_state.bar_count()
bar_count(ms) == ms.count

\* market_state.recent_bars(n): None, or the last n bars, fewer if the snapshot
\* has fewer
recent_bars(ms, n) ==
    [none |-> ms.none,
     closes |-> IF Len(ms.closes) <= n THEN ms.closes
                ELSE SubSeq(ms.closes, Len(ms.closes) - n + 1, Len(ms.closes)),
     open |-> ms.open]

\* cross_up, cross_down (only printed)
cross_up(fast2, slow2, fast1, slow1) == ~qless(slow2, fast2) /\ qless(slow1, fast1)
cross_down(fast2, slow2, fast1, slow1) == ~qless(fast2, slow2) /\ qless(fast1, slow1)

\* (variant) a position is taken on an EMA cross only
signal_on_cross(self, bars) ==
    LET n == Len(bars.closes)
        fast1 == ema(bars.closes, self.params.fast_period, n)
        slow1 == ema(bars.closes, self.params.slow_period, n)
        fast2 == ema(bars.closes, self.params.fast_period, n - 1)
        slow2 == ema(bars.closes, self.params.slow_period, n - 1)
    IN  IF cross_up(fast2, slow2, fast1, slow1) THEN "BUY"
        ELSE IF cross_down(fast2, slow2, fast1, slow1) THEN "SELL"
        ELSE "HOLD"

\* on_bar, lines 133-173: the signal from the bars
signal(self, bars) ==
    LET closes == bars.closes
        n == Len(closes)
        fast_ema == ema(closes, self.params.fast_period, n)
        slow_ema == ema(closes, self.params.slow_period, n)
        rsi == calculate_rsi(self, closes)
        base == IF qless(slow_ema, fast_ema) THEN "BUY" ELSE "SELL"
    IN  IF qless(rsi, <<self.params.rsi_oversold, 1>>) /\ closes[n] > bars.open
        THEN "BUY"
        ELSE IF qless(<<self.params.rsi_overbought, 1>>, rsi) /\ closes[n] < bars.open
        THEN "SELL"
        ELSE base

\* (variant) only a missing result is checked, not its length
enough_if_any(self, bars) == ~bars.none

\* line 130: not (bars is None or len(bars) < required_bars)
enough(self, bars) == ~(bars.none \/ Len(bars.closes) < required_bars(self))

\* CompetitionHailMary.on_bar(market_state, position_state, clock)
on_bar(self, ms) ==
    IF bar_count(ms) < required_bars(self) THEN TradeIntent("HOLD")
    ELSE LET bars == recent_bars(ms, required_bars(self))
         IN  IF ~enough(self, bars)
             THEN TradeIntent("HOLD")
             ELSE TradeIntent(signal(self, bars))

\* ---- the diagnostic hook

\* (variant) no decision counts as HOLD
is_hold_never(intent) == FALSE

\* TradeIntent.is_hold()
is_hold(intent) == intent.type = "HOLD"

\* the ways the environment can fail a step of the hook
Faults == {"none", "current_bar", "info"}

\* _log_signal_intent(intent, market_state): the instance afterwards, whether an
\* exception left the hook, and the records given to the logger. fault names the
\* step the environment fails: current_bar() of the snapshot, or logger.info()
\* (a filter or handler that raises). setattr raises on an instance whose class
\* forbids assignment.
log_signal_intent(self, intent, ms, fault) ==
    IF self.explain_decisions # "True" THEN [self |-> self, raised |-> FALSE, records |-> <<>>]
    ELSE IF intent = NoIntent \/ is_hold(intent)
         THEN [self |-> self, raised |-> FALSE, records |-> <<>>]
    ELSE IF fault = "current_bar" THEN [self |-> self, raised |-> FALSE, records |-> <<>>]
    ELSE IF ~self.diagnostic_logger /\ self.frozen
         THEN [self |-> self, raised |-> TRUE, records |-> <<>>]
    ELSE LET cached == [self EXCEPT !.diagnostic_logger = TRUE]
             direction == CASE intent.type = "BUY" -> "LONG"
                            [] intent.type = "SELL" -> "SHORT"
                            [] intent.type = "CLOSE" -> "CLOSE"
                            [] OTHER -> "FLAT"
         IN  IF fault = "info" THEN [self |-> cached, raised |-> TRUE, records |-> <<>>]
             ELSE [self |-> cached, raised |-> FALSE,
                   records |-> <<[name |-> self.cls, ts |-> ms.count,
                                  direction |-> direction,
                                  confidence |-> intent.size, size |-> intent.size]>>]

\* the on_bar that __init_subclass__ puts in place of the class's own: intent is
\* what the class's own on_bar returned. The caller gets intent, or the exception
\* that left the hook; fault is kept with the outcome.
wrapped(self, intent, ms, fault) ==
    LET r == log_signal_intent(self, intent, ms, fault)
    IN  [self |-> r.self,
         ret |-> IF r.raised
                 THEN [kind |-> "raised", original |-> intent,
                       value |-> [type |-> "-", size |-> 0], fault |-> fault]
                 ELSE [kind |-> "value", original |-> intent, value |-> intent,
                       fault |-> fault],
         records |-> r.records]

\* (variant) on_bar adapts the lookback to the bars it saw
after_on_bar_adaptive(self, ms) ==
    [self EXCEPT !.params.lookback = IF ms.count > required_bars(self) THEN @ + 1 ELSE @]

\* the instance after the class's own on_bar: CompetitionHailMary.on_bar assigns
\* no attribute
after_on_bar(self, ms) == self

\* ---- CompetitionHailMary on one snapshot

Run(x, n) == [i \in 1..n |-> x]

\* the close sequences of length n that are made of at most three runs
Closes(n) ==
    UNION {UNION {{Run(x, a) \o Run(y, b) \o Run(z, n - a - b) : x, y, z \in Prices}
                  : b \in 0..(n - a)} : a \in 0..n}

\* the longest history a snapshot holds
MaxBars == MaxPeriod + Buffer

\* the snapshots: the bars it holds (closes, and the open of the newest bar),
\* what bar_count() reports, and whether recent_bars() returns None
Snapshots ==
    UNION {[count : {n, MaxBars}, closes : Closes(n), open : {0, 1, 3}, none : BOOLEAN]
           : n \in (Buffer - 1)..MaxBars}

\* CompetitionHailMary(lookback=.., slow_period=.., fast_period=1, rsi_period=2),
\* with explain_decisions unset or set to True by the runner
HailMarys ==
    [cls : {"CompetitionHailMary"},
     params : [lookback : 1..MaxPeriod, slow_period : 1..MaxPeriod, fast_period : {1},
               rsi_period : {2}, rsi_oversold : {rsi_oversold_default},
               rsi_overbought : {rsi_overbought_default}],
     explain_decisions : {"unset", "True"},
     frozen : {FALSE},
     diagnostic_logger : {FALSE}]

HMInit ==
    /\ SinkOff
    /\ HierarchyOff
    /\ TelebotOff
    /\ ser = NoCall
    /\ hyp \in HailMarys
    /\ market \in Snapshots
    /\ ret = NoRet
    /\ log = <<>>
    /\ memo = <<>>

\* hyp.on_bar(market, position, clock)
HMOnBar(fault) ==
    /\ ret.kind = "none"
    /\ LET r == wrapped(after_on_bar(hyp, market), on_bar(hyp, market), market, fault)
       IN  /\ hyp' = r.self
           /\ ret' = r.ret
           /\ log' = log \o r.records
    /\ UNCHANGED <<vars, ser, market, memo, hierarchy, telebot>>

HMNext == \E fault \in Faults : HMOnBar(fault)

HailMarySpec == HMInit /\ [][HMNext]_<<vars, upstream>>

\* ---- any strategy, called again and again

\* bound: number of records the logger takes in one behaviour
MaxLog == 2

\* the snapshots the runner calls on_bar with: too few bars, a rise on the last
\* bar, a fall on the last bar
Replays ==
    {[count |-> Len(c), closes |-> c, open |-> 1, none |-> FALSE] :
        c \in {Run(1, Buffer - 1), Append(Run(1, MaxBars - 1), 2),
               Append(Run(2, MaxBars - 1), 1)}}

\* what an on_bar can return: None or a TradeIntent
Decisions == {NoIntent} \cup {TradeIntent(t) : t \in {"HOLD", "BUY", "SELL", "CLOSE"}}

\* instances of another subclass of Hypothesis; frozen: the class forbids
\* assignment to attributes (a frozen dataclass, a __setattr__ that raises)
Others ==
    [cls : {"Other"}, params : {<<>>}, explain_decisions : {"unset", "False", "True"},
     frozen : BOOLEAN, diagnostic_logger : {FALSE}]

HookInit ==
    /\ SinkOff
    /\ HierarchyOff
    /\ TelebotOff
    /\ ser = NoCall
    /\ \/ hyp \in Others
       \/ hyp \in {h \in HailMarys : h.params.lookback = MaxPeriod}
       \/ hyp \in {[h EXCEPT !.explain_decisions = "False"] : h \in HailMarys}
    /\ market \in Replays
    /\ ret = NoRet
    /\ log = <<>>
    /\ memo = <<>>

\* the runner calls on_bar of a CompetitionHailMary with the snapshot ms
OnBarHailMary(ms, fault) ==
    /\ hyp.cls = "CompetitionHailMary"
    /\ Len(log) < MaxLog
    /\ LET r == wrapped(after_on_bar(hyp, ms), on_bar(hyp, ms), ms, fault)
       IN  /\ hyp' = r.self
           /\ ret' = r.ret
           /\ log' = log \o r.records
    /\ market' = ms
    /\ UNCHANGED <<vars, ser, memo, hierarchy, telebot>>

\* the runner calls on_bar of another strategy, whose own on_bar returns intent
OnBarOther(ms, intent, fault) ==
    /\ hyp.cls = "Other"
    /\ Len(log) < MaxLog
    /\ LET r == wrapped(hyp, intent, ms, fault)
       IN  /\ hyp' = r.self
           /\ ret' = r.ret
           /\ log' = log \o r.records
    /\ market' = ms
    /\ UNCHANGED <<vars, ser, memo, hierarchy, telebot>>

\* the last call is remembered
Remember ==
    /\ ret.kind # "none"
    /\ memo = <<>>
    /\ memo' = [snap |-> market, decision |-> ret.original]
    /\ UNCHANGED <<vars, ser, hyp, market, ret, log, hierarchy, telebot>>

HookNext ==
    \/ \E ms \in Replays, fault \in Faults : OnBarHailMary(ms, fault)
    \/ \E ms \in Replays, intent \in Decisions, fault \in Faults : OnBarOther(ms, intent, fault)
    \/ Remember

HookSpec == HookInit /\ [][HookNext]_<<vars, upstream>>

\* ------------------------------------------ properties of the strategy

\* on_bar was called and its caller got a value or an exception
Called == ret.kind # "none"

\* the snapshot has fewer bars than the strategy requires
Insufficient ==
    \/ market.count < max(hyp.params.lookback, hyp.params.slow_period) + 10
    \/ market.none
    \/ Len(market.closes) < max(hyp.params.lookback, hyp.params.slow_period) + 10

\* C18: when the snapshot has fewer bars than max(lookback, slow_period) + 10
\* (bar_count() below it, or recent_bars returning None or fewer bars), on_bar
\* returns a HOLD decision to its caller, no exception leaves it and no signal
\* record is made.
C18_InsufficientDataHolds ==
    Called /\ Insufficient =>
        /\ ret.kind = "value"
        /\ ret.value = TradeIntent("HOLD")
        /\ ret.original = TradeIntent("HOLD")
        /\ log = <<>>

\* bar_count() reports enough bars but recent_bars returned one bar too few, on
\* an instance with the hook enabled
C18_Witness ==
    /\ Called
    /\ hyp.explain_decisions = "True"
    /\ market.count >= required_bars(hyp)
    /\ ~market.none
    /\ Len(market.closes) = required_bars(hyp) - 1
    /\ ret.value.type = "HOLD"

\* the indicator values of the bars on_bar works on
TheBars == recent_bars(market, required_bars(hyp))
RSI == calculate_rsi(hyp, TheBars.closes)
FastEMA == ema(TheBars.closes, hyp.params.fast_period, Len(TheBars.closes))
SlowEMA == ema(TheBars.closes, hyp.params.slow_period, Len(TheBars.closes))
LastClose == TheBars.closes[Len(TheBars.closes)]
Oversold == qless(RSI, <<hyp.params.rsi_oversold, 1>>) /\ LastClose > TheBars.open
Overbought == qless(<<hyp.params.rsi_overbought, 1>>, RSI) /\ LastClose < TheBars.open

\* C20: with enough bars the decision of on_bar is BUY or SELL with size 1.0:
\* BUY if RSI < rsi_oversold and the last bar closed above its open, else SELL
\* if RSI > rsi_overbought and the last bar closed below its open, else BUY if
\* the fast EMA is above the slow EMA, else SELL; the caller gets this decision
\* whenever no exception leaves the call.
C20_AlwaysInMarket ==
    Called /\ ~Insufficient =>
        /\ ret.original.type \in {"BUY", "SELL"}
        /\ ret.original.size = 10
        /\ ret.original.type =
              IF Oversold THEN "BUY"
              ELSE IF Overbought THEN "SELL"
              ELSE IF qless(SlowEMA, FastEMA) THEN "BUY" ELSE "SELL"
        /\ ret.kind = "value" => ret.value = ret.original

\* the RSI override made the decision BUY against a falling trend, without an
\* EMA cross on the last bar
C20_Witness ==
    /\ Called
    /\ ~Insufficient
    /\ Oversold
    /\ qless(FastEMA, SlowEMA)
    /\ ret.kind = "value"
    /\ ret.value = TradeIntent("BUY")

\* ------------------------------------------------ properties of the hook

\* this step is a call of on_bar
IsCall == memo' = memo

\* the step gave the logger one more record
Logged == Len(log') = Len(log) + 1

\* the decision is BUY, SELL or CLOSE
NonHold(intent) == intent.type \in {"BUY", "SELL", "CLOSE"}

\* C16: the value the caller of on_bar gets is the value the class's own on_bar
\* returned, and no error raised inside _log_signal_intent reaches the caller.
C16_HookTransparent ==
    Called => ret.kind = "value" /\ ret.value = ret.original

\* C17 as stated: a call logs a record exactly if explain_decisions is enabled
\* and the decision is BUY, SELL or CLOSE.
C17_LogsExactlyNonHold ==
    [][IsCall => (Logged <=> hyp.explain_decisions = "True" /\ NonHold(ret'.original))
      ]_<<vars, upstream>>

\* C17, amended: a call logs a record exactly if explain_decisions is enabled,
\* the decision is BUY, SELL or CLOSE, current_bar() of the snapshot succeeds
\* and no exception leaves the hook; the record carries the direction and the
\* size of the decision; any other call logs nothing.
C17_LogsNonHoldWhenBarReadable ==
    [][IsCall =>
          /\ Logged <=> /\ hyp.explain_decisions = "True"
                        /\ NonHold(ret'.original)
                        /\ ret'.fault # "current_bar"
                        /\ ret'.kind = "value"
          /\ Logged =>
                /\ log'[Len(log')].size = ret'.original.size
                /\ log'[Len(log')].direction =
                      CASE ret'.original.type = "BUY" -> "LONG"
                        [] ret'.original.type = "SELL" -> "SHORT"
                        [] ret'.original.type = "CLOSE" -> "CLOSE"
          /\ ~Logged => log' = log
      ]_<<vars, upstream>>

\* a CLOSE decision was logged after a BUY decision was not, the current bar
\* being unreadable
C17_Witness ==
    /\ Len(log) = 1
    /\ log[1].direction = "CLOSE"
    /\ memo # <<>>
    /\ memo.decision.type = "BUY"
    /\ hyp.explain_decisions = "True"

\* C19: on one CompetitionHailMary instance a call of on_bar with the snapshot
\* of a remembered earlier call gives the decision of that call, whatever was
\* called in between; and a call changes no attribute of an instance except the
\* logger the hook caches, so the parameters stay as they were.
C19_Purity ==
    [][IsCall =>
          /\ hyp.cls = "CompetitionHailMary" /\ memo # <<>> /\ market' = memo.snap
                => ret'.original = memo.decision
          /\ hyp' = [hyp EXCEPT !.diagnostic_logger = hyp'.diagnostic_logger]
          /\ hyp'.params = hyp.params
      ]_<<vars, upstream>>

\* the remembered snapshot was given again after the logger was cached and a
\* call with another snapshot was made in between
C19_Witness ==
    /\ hyp.cls = "CompetitionHailMary"
    /\ hyp.diagnostic_logger
    /\ memo # <<>>
    /\ memo.snap = market
    /\ Len(log) = 2
    /\ log[1].direction # log[2].direction
    /\ log[2].ts = market.count
    /\ ret.original = memo.decision
    /\ NonHold(ret.original)

\* ------------------------------------------------ the class hierarchy
\* Subclasses of Hypothesis, each the child of the one before it. Defining a
\* class runs Hypothesis.__init_subclass__ for it.

\* bound: number of classes below Hypothesis
MaxDepth == 3

\* what the body of a subclass holds: an on_bar that decides by itself, no on_bar
\* at all, or an on_bar that returns super().on_bar(market_state, ...)
Bodies == {"defines", "inherits", "delegates"}

\* Hypothesis.on_bar, the abstract method: no wrapper around it
abstract_on_bar == [layers |-> 0, body |-> "abstract", cls |-> 0]

\* the on_bar written in the body of class number i
own_on_bar(body, i) == [layers |-> 0, body |-> body, cls |-> i]

\* getattr(parent, "on_bar"): the attribute as the class above number i has it
parent_on_bar(cs, i) == IF i = 1 THEN abstract_on_bar ELSE cs[i - 1].on_bar

\* getattr(original_on_bar, "_diagnostic_wrapped", False): set on every wrapper
diagnostic_wrapped(f) == f.layers > 0

\* __init_subclass__ for a new class with this body below the classes cs: the
\* classes afterwards. original_on_bar is the body's own on_bar or, without
\* one, the attribute found on the parent; it is replaced by a wrapper around
\* it unless it carries the mark of a wrapper
init_subclass(cs, body) ==
    LET i == Len(cs) + 1
        original_on_bar == IF body = "inherits" THEN parent_on_bar(cs, i)
                           ELSE own_on_bar(body, i)
    IN  Append(cs, [body |-> body,
                    on_bar |-> IF diagnostic_wrapped(original_on_bar)
                               THEN original_on_bar
                               ELSE [original_on_bar EXCEPT !.layers = @ + 1]])

\* a call f(self, market_state, position_state, clock) of the function f that
\* is the attribute on_bar of some class of cs. decision is what an on_bar that
\* decides by itself returns here. A wrapper calls its original_on_bar and then
\* the hook; a delegating on_bar returns what its parent's on_bar returns; the
\* abstract on_bar returns None. An exception that leaves the hook leaves every
\* caller. fault as in log_signal_intent, for each run of the hook in this call.
RECURSIVE call(_, _, _, _, _, _)
call(cs, f, self, decision, ms, fault) ==
    IF f.layers > 0
    THEN LET r == call(cs, [f EXCEPT !.layers = @ - 1], self, decision, ms, fault)
             h == log_signal_intent(r.self, r.intent, ms, fault)
         IN  IF r.raised THEN r
             ELSE [self |-> h.self, raised |-> h.raised, intent |-> r.intent,
                   records |-> r.records \o h.records, hooks |-> r.hooks + 1]
    ELSE IF f.body = "delegates"
         THEN call(cs, parent_on_bar(cs, f.cls), self, decision, ms, fault)
    ELSE [self |-> self, raised |-> FALSE,
          intent |-> IF f.body = "abstract" THEN NoIntent ELSE decision,
          records |-> <<>>, hooks |-> 0]

ChainInit ==
    /\ SinkOff
    /\ TelebotOff
    /\ ser = NoCall
    /\ hyp \in Others
    /\ market \in Replays
    /\ ret = NoRet
    /\ log = <<>>
    /\ memo = <<>>
    /\ classes = <<>>
    /\ hooks = 0

\* class C(<the newest class, or Hypothesis>): with this body
Subclass(body) ==
    /\ Len(classes) < MaxDepth
    /\ classes' = init_subclass(classes, body)
    /\ UNCHANGED <<vars, ser, hyp, market, ret, log, memo, hooks, telebot>>

\* the runner calls on_bar of an instance of the newest class, once
OnBarChain(ms, decision, fault) ==
    /\ classes # <<>>
    /\ ret.kind = "none"
    /\ LET r == call(classes, classes[Len(classes)].on_bar, hyp, decision, ms, fault)
       IN  /\ hyp' = r.self
           /\ ret' = IF r.raised
                     THEN [kind |-> "raised", original |-> r.intent,
                           value |-> [type |-> "-", size |-> 0], fault |-> fault]
                     ELSE [kind |-> "value", original |-> r.intent, value |-> r.intent,
                           fault |-> fault]
           /\ log' = log \o r.records
           /\ hooks' = r.hooks
    /\ market' = ms
    /\ UNCHANGED <<vars, ser, memo, classes, telebot>>

ChainNext ==
    \/ \E body \in Bodies : Subclass(body)
    \/ \E ms \in Replays, decision \in Decisions, fault \in Faults :
          OnBarChain(ms, decision, fault)

ChainSpec == ChainInit /\ [][ChainNext]_<<vars, upstream>>

\* ---------------------------------------- properties of the hierarchy

\* the step is an on_bar call (a class definition leaves the classes changed)
IsChainCall == classes' = classes

\* C21: the hook runs exactly once per external on_bar call, whatever the
\* chain of classes, and a call gives the logger at most one record for its one
\* decision - also through a subclass that overrides on_bar and delegates to
\* its parent's on_bar.
C21_HookOncePerCall ==
    [][IsChainCall => /\ hooks' = 1
                      /\ Len(log') <= Len(log) + 1]_<<vars, upstream>>

\* ------------------------------------------------------ the telegram bot
\* The trading commands of src/quant/telebot/main.py. BotManager is not part
\* of the sources at hand: start_session and stop_session are modelled from
\* what is stated about them.

\* the telegram ids that send commands
Users == {1, 2}

\* User.status of a telegram id: no row, or the row's status
Statuses == {"none", "pending", "active"}

\* the capital.com credentials of a UserContext: a field is empty, all are
\* stored, or all are stored and CRYPTO.decrypt raises on them
Credentials == {"missing", "stored", "undecryptable"}

\* no session runs for any user
NoSessions == [u \in Users |-> "none"]

\* the creds dictionary: 'demo': not live
creds_of(live) == [demo |-> ~live]

\* BotManager.start_session(user_id, creds): the sessions afterwards and the
\* returned flag. It refuses when a session of the user is running; starts
\* tells whether the engine comes up otherwise. The session keeps the mode of
\* its creds.
start_session(ss, u, creds, starts) ==
    IF ss[u] # "none" THEN [sessions |-> ss, ok |-> FALSE]
    ELSE IF ~starts THEN [sessions |-> ss, ok |-> FALSE]
    ELSE [sessions |-> [ss EXCEPT ![u] = IF creds.demo THEN "demo" ELSE "live"],
          ok |-> TRUE]

\* BotManager.stop_session(user_id)
stop_session(ss, u) ==
    IF ss[u] = "none" THEN [sessions |-> ss, ok |-> FALSE]
    ELSE [sessions |-> [ss EXCEPT ![u] = "none"], ok |-> TRUE]

BotInit ==
    /\ SinkOff
    /\ StrategyOff
    /\ HierarchyOff
    /\ ser = NoCall
    /\ manager \in BOOLEAN
    /\ db \in [Users -> [status : Statuses, credentials : Credentials, live_mode : BOOLEAN]]
    /\ sessions = NoSessions
    /\ reply = <<>>

\* _start_engine(update, context, live) for the sender u: the account and the
\* credentials are looked at, the preference is written and committed, and
\* only then the session is started
start_engine(u, live, starts) ==
    /\ IF ~manager THEN UNCHANGED <<db, sessions, reply>>
       ELSE IF db[u].status # "active"
            THEN /\ reply' = [to |-> u, text |-> "Account not approved."]
                 /\ UNCHANGED <<db, sessions>>
       ELSE IF db[u].credentials = "missing"
            THEN /\ reply' = [to |-> u, text |-> "Credentials missing."]
                 /\ UNCHANGED <<db, sessions>>
       ELSE IF db[u].credentials = "undecryptable"
            THEN /\ reply' = [to |-> u, text |-> "Decryption failed."]
                 /\ UNCHANGED <<db, sessions>>
       ELSE LET r == start_session(sessions, u, creds_of(live), starts)
            IN  /\ db' = [db EXCEPT ![u].live_mode = live]
                /\ sessions' = r.sessions
                /\ reply' = [to |-> u,
                             text |-> IF ~r.ok THEN "Engine already running or failed to start."
                                      ELSE IF live THEN "LIVE Trading STARTED"
                                      ELSE "DEMO Trading STARTED"]
    /\ UNCHANGED <<vars, ser, strategy, hierarchy, manager>>

\* /start_demo
start_demo(u, starts) == start_engine(u, FALSE, starts)

\* /start_live
start_live(u, starts) == start_engine(u, TRUE, starts)

\* /stop
stop_trading(u) ==
    /\ IF ~manager THEN UNCHANGED <<sessions, reply>>
       ELSE LET r == stop_session(sessions, u)
            IN  /\ sessions' = r.sessions
                /\ reply' = [to |-> u, text |-> IF r.ok THEN "Engine STOPPED"
                                                 ELSE "Engine not running."]
    /\ UNCHANGED <<vars, ser, strategy, hierarchy, manager, db>>

BotNext ==
    \/ \E u \in Users, starts \in BOOLEAN : start_demo(u, starts)
    \/ \E u \in Users, starts \in BOOLEAN : start_live(u, starts)
    \/ \E u \in Users : stop_trading(u)

BotSpec == BotInit /\ [][BotNext]_<<vars, upstream>>

\* ------------------------------------------------ properties of the bot

\* C22: after any sequence of /start_demo, /start_live and /stop of an active
\* user with credentials, whenever a session of the user is running the stored
\* live_mode is the mode that session was started with; a refused /start_live
\* does not leave live_mode = true while a demo session runs, nor the reverse.
C22_ModeMatchesSession ==
    \A u \in Users :
        (db[u].status = "active" /\ db[u].credentials = "stored" /\ sessions[u] # "none")
            => (db[u].live_mode = (sessions[u] = "live"))

====
